---- MODULE Spec2Model ----
(***************************************************************************)
(* Model of the Zabbix -> iTop exporter.                                   *)
(*                                                                         *)
(*   src/zabbix-to-itop.py : argument parsing, host filter, column mapper, *)
(*                           the run loop of main() and its output.        *)
(*   src/zabbixhost.py     : the ZabbixHost accessor (interface, _matches).*)
(*                                                                         *)
(* Python strings are modelled as sequences of one-character strings so    *)
(* that split / strip / join are computed, not assumed.  Python dicts are  *)
(* modelled as sequences of <<key, value>> pairs in insertion order, which *)
(* is the order dict.keys() yields.                                        *)
(***************************************************************************)
EXTENDS Integers, Sequences, FiniteSets, TLC

VARIABLES
    args,       \* the parsed command line (argparse namespace), raw strings
    zabbix,     \* the hosts the Zabbix server holds (external data source)
    pc,         \* position of main(): "parse","connect","loop","done","exit2","raised"
    exc,        \* the exception that ended the run ("None" while none)
    req_tags,   \* main: req_tags      (dict)
    req_groups, \* main: req_groups    (list)
    req_templates, \* main: req_templates (list)
    mapping,    \* main: mapping       (list of (zbx_path, itop_field))
    unique,     \* main: unique        (list of field names, <<>> for False)
    hosts,      \* main: hosts         (result of zapi.host.get)
    i,          \* main: index of the next host of the for loop
    rows,       \* main: rows
    uniqueset,  \* main: uniqueset
    header,     \* write_csv / print_table_preview: headers
    zh,         \* ZabbixHost: [host, cfg] of the accessor object
    zcall,      \* ZabbixHost: the last call made, [op, key]
    zret,       \* ZabbixHost: what the last call returned
    zexc        \* ZabbixHost: the exception the last call raised ("None" if none)

vars == <<args, zabbix, pc, exc, req_tags, req_groups, req_templates, mapping,
          unique, hosts, i, rows, uniqueset, header, zh, zcall, zret, zexc>>

mainVars == <<args, zabbix, pc, exc, req_tags, req_groups, req_templates, mapping,
              unique, hosts, i, rows, uniqueset, header>>

zhVars == <<zh, zcall, zret, zexc>>

(***************************************************************************)
(* Bounds of the model.                                                    *)
(***************************************************************************)
MaxHosts == 3
MaxIntf == 2

(***************************************************************************)
(* Python string and dict primitives.                                      *)
(***************************************************************************)
\* Index of the first occurrence of character c in s, 0 if there is none.
IndexOf(s, c) ==
    IF \E k \in 1..Len(s) : s[k] = c
    THEN CHOOSE k \in 1..Len(s) : s[k] = c /\ \A j \in 1..(k-1) : s[j] # c
    ELSE 0

\* c in s
HasChar(s, c) == \E k \in 1..Len(s) : s[k] = c

\* str.split(c, n): n < 0 means no limit.  Always returns at least one part.
RECURSIVE PySplit(_, _, _)
PySplit(s, c, n) ==
    LET k == IndexOf(s, c) IN
    IF k = 0 \/ n = 0
    THEN <<s>>
    ELSE <<SubSeq(s, 1, k-1)>> \o PySplit(SubSeq(s, k+1, Len(s)), c, n-1)

RECURSIVE LStrip(_)
LStrip(s) == IF s # <<>> /\ Head(s) = " " THEN LStrip(Tail(s)) ELSE s

RECURSIVE RStrip(_)
RStrip(s) ==
    IF s # <<>> /\ s[Len(s)] = " " THEN RStrip(SubSeq(s, 1, Len(s)-1)) ELSE s

\* str.strip()
PyStrip(s) == RStrip(LStrip(s))

\* sep.join(parts)
RECURSIVE PyJoin(_, _)
PyJoin(sep, parts) ==
    IF parts = <<>> THEN <<>>
    ELSE IF Len(parts) = 1 THEN parts[1]
    ELSE parts[1] \o sep \o PyJoin(sep, Tail(parts))

\* s.startswith(p)
StartsWith(s, p) == Len(s) >= Len(p) /\ SubSeq(s, 1, Len(p)) = p

\* [f(x) for x in xs if keep(x)] pieces
RECURSIVE StripNonEmpty(_)
StripNonEmpty(parts) ==
    IF parts = <<>> THEN <<>>
    ELSE LET p == PyStrip(Head(parts)) IN
         IF p # <<>> THEN <<p>> \o StripNonEmpty(Tail(parts))
         ELSE StripNonEmpty(Tail(parts))

\* dict: k in d, d[k], d.get(k, dflt), d[k] = v, list(d.keys())
DictHas(d, k) == \E n \in 1..Len(d) : d[n][1] = k
DictGet(d, k, dflt) ==
    IF DictHas(d, k) THEN d[CHOOSE n \in 1..Len(d) : d[n][1] = k][2] ELSE dflt
DictSet(d, k, v) ==
    IF DictHas(d, k)
    THEN [d EXCEPT ![CHOOSE n \in 1..Len(d) : d[n][1] = k] = <<k, v>>]
    ELSE Append(d, <<k, v>>)
DictKeys(d) == [n \in 1..Len(d) |-> d[n][1]]

\* The elements of a list, as a set.
Elems(xs) == {xs[n] : n \in 1..Len(xs)}

\* Result of a call that may raise.
Ok(v) == [exc |-> "None", val |-> v]
Raise(e) == [exc |-> e, val |-> <<>>]

(***************************************************************************)
(* Parsing helpers (src/zabbix-to-itop.py).                                *)
(***************************************************************************)
\* parse_required_tags: "k=v,k2=v2" -> dict; ValueError on an entry without "=".
RECURSIVE TagsFromParts(_, _)
TagsFromParts(parts, result) ==
    IF parts = <<>> THEN Ok(result)
    ELSE LET p == Head(parts) IN
         IF ~HasChar(p, "=") THEN Raise("ValueError")
         ELSE LET kv == PySplit(p, "=", 1) IN
              TagsFromParts(Tail(parts),
                            DictSet(result, PyStrip(kv[1]), PyStrip(kv[2])))

parse_required_tags(s) ==
    LET t == PyStrip(s) IN
    IF t = <<>> THEN Ok(<<>>)
    ELSE TagsFromParts(StripNonEmpty(PySplit(t, ",", -1)), <<>>)

\* parse_csv_list: "a,b,c" -> ["a","b","c"]
parse_csv_list(s) ==
    LET t == PyStrip(s) IN
    IF t = <<>> THEN <<>> ELSE StripNonEmpty(PySplit(t, ",", -1))

ItopPrefix == <<"i", "t", "o", "p", ":">>

\* parse_columns_mapping: "zbx:itop, field=value" -> [(zbx_path, itop_field), ...]
RECURSIVE MappingFromPairs(_, _)
MappingFromPairs(pairs, acc) ==
    IF pairs = <<>> THEN Ok(acc)
    ELSE LET pair == Head(pairs) IN
         IF HasChar(pair, ":")
         THEN LET lr == PySplit(pair, ":", 1)
                  zbx_path == PyStrip(lr[1])
                  itop_field == PyStrip(lr[2])
              IN IF zbx_path = <<>> \/ itop_field = <<>>
                 THEN Raise("ValueError")
                 ELSE MappingFromPairs(Tail(pairs),
                                       Append(acc, <<zbx_path, itop_field>>))
         ELSE IF HasChar(pair, "=")
         THEN LET lr == PySplit(pair, "=", 1)
                  itop_field == PyStrip(lr[1])
                  itop_value == PyStrip(lr[2])
              IN IF itop_field = <<>> \/ itop_value = <<>>
                 THEN Raise("ValueError")
                 ELSE MappingFromPairs(Tail(pairs),
                          Append(acc, <<ItopPrefix \o itop_field, itop_value>>))
         ELSE Raise("ValueError")

parse_columns_mapping(s) ==
    LET t == PyStrip(s) IN
    IF t = <<>> THEN Raise("ValueError")
    ELSE MappingFromPairs(StripNonEmpty(PySplit(t, ",", -1)), <<>>)

(***************************************************************************)
(* Source paths and top-level keys, as Python strings.                     *)
(***************************************************************************)
k_host == <<"h", "o", "s", "t">>
k_name == <<"n", "a", "m", "e">>
k_hostid == <<"h", "o", "s", "t", "i", "d">>
k_fqdn == <<"f", "q", "d", "n">>
k_ip == <<"i", "p">>
k_groups == <<"g", "r", "o", "u", "p", "s">>
k_templates == <<"t", "e", "m", "p", "l", "a", "t", "e", "s">>
k_parentTemplates == <<"p", "a", "r", "e", "n", "t", "T", "e", "m", "p", "l", "a", "t", "e", "s">>
k_status == <<"s", "t", "a", "t", "u", "s">>
k_tags == <<"t", "a", "g", "s">>
k_hostgroups == <<"h", "o", "s", "t", "g", "r", "o", "u", "p", "s">>
k_interfaces == <<"i", "n", "t", "e", "r", "f", "a", "c", "e", "s">>
k_inventory == <<"i", "n", "v", "e", "n", "t", "o", "r", "y">>
k_inventory_dot == <<"i", "n", "v", "e", "n", "t", "o", "r", "y", ".">>
k_tags_dot == <<"t", "a", "g", "s", ".">>

\* None, which equals no string.
PyNone == <<"<None>">>

\* str(val) of a list or dict: Python's repr text, kept abstract as one
\* non-empty string since nothing below reads inside it.
PyReprOfContainer == <<"[", "]">>

(***************************************************************************)
(* A host record as zapi.host.get returns it.  keys is the set of the      *)
(* top-level keys the record has; a field outside keys is absent and its   *)
(* value here is never read.                                               *)
(***************************************************************************)
\* host.get(key, dflt)
HostGet(host, key, dflt) == IF key \in host.keys THEN host[key] ELSE dflt

\* [x["name"] for x in xs]
Names(xs) == [n \in 1..Len(xs) |-> xs[n].name]

\* {t["tag"]: t["value"] for t in tags}: a later entry overwrites an earlier one.
RECURSIVE TagMap(_, _)
TagMap(tags, acc) ==
    IF tags = <<>> THEN acc
    ELSE TagMap(Tail(tags), DictSet(acc, Head(tags).tag, Head(tags).value))

(***************************************************************************)
(* host_matches_filters (src/zabbix-to-itop.py).                           *)
(***************************************************************************)
host_matches_filters(host, rtags, rgroups, rtemplates) ==
    IF rtags = <<>> /\ rgroups = <<>> /\ rtemplates = <<>> THEN TRUE
    ELSE
      LET tag_map == TagMap(HostGet(host, "tags", <<>>), <<>>)
          group_names == Elems(Names(HostGet(host, "hostgroups", <<>>)))
          tmpl_names == Elems(Names(HostGet(host, "parentTemplates", <<>>)))
      IN /\ \A n \in 1..Len(rtags) :
                 DictGet(tag_map, rtags[n][1], PyNone) = rtags[n][2]
         /\ \A n \in 1..Len(rgroups) : rgroups[n] \in group_names
         /\ \A n \in 1..Len(rtemplates) : rtemplates[n] \in tmpl_names

(***************************************************************************)
(* extract_value_from_host (src/zabbix-to-itop.py).                        *)
(***************************************************************************)
\* [x.get("name","") for x in xs if x.get("name")]
RECURSIVE TruthyNames(_)
TruthyNames(xs) ==
    IF xs = <<>> THEN <<>>
    ELSE IF Head(xs).name # <<>> THEN <<Head(xs).name>> \o TruthyNames(Tail(xs))
    ELSE TruthyNames(Tail(xs))

\* for t in tags: if t.get("tag") == tag_key: return value
RECURSIVE FirstTagValue(_, _)
FirstTagValue(tags, tag_key) ==
    IF tags = <<>> THEN <<>>
    ELSE IF Head(tags).tag = tag_key THEN Head(tags).value
    ELSE FirstTagValue(Tail(tags), tag_key)

\* host.get("interfaces", "")[0][attr]: IndexError on an empty or absent list.
FirstInterface(host, attr) ==
    LET ifs == HostGet(host, "interfaces", <<>>) IN
    IF Len(ifs) = 0 THEN Raise("IndexError") ELSE Ok(ifs[1][attr])

\* host.get(zbx_path) for the remaining top-level keys.
TopLevelFallback(host, zbx_path) ==
    IF zbx_path = k_status /\ "status" \in host.keys THEN Ok(host.status)
    ELSE IF \/ (zbx_path = k_tags /\ "tags" \in host.keys)
            \/ (zbx_path = k_hostgroups /\ "hostgroups" \in host.keys)
            \/ (zbx_path = k_interfaces /\ "interfaces" \in host.keys)
            \/ (zbx_path = k_inventory /\ "inventory" \in host.keys)
    THEN Ok(PyReprOfContainer)
    ELSE Ok(<<>>)

extract_value_from_host(host, zbx_path) ==
    IF zbx_path = k_host THEN Ok(HostGet(host, "host", <<>>))
    ELSE IF zbx_path = k_name THEN Ok(HostGet(host, "name", <<>>))
    ELSE IF zbx_path = k_hostid THEN Ok(HostGet(host, "hostid", <<>>))
    ELSE IF zbx_path = k_fqdn THEN FirstInterface(host, "dns")
    ELSE IF zbx_path = k_ip THEN FirstInterface(host, "ip")
    ELSE IF StartsWith(zbx_path, k_inventory_dot)
    THEN Ok(DictGet(HostGet(host, "inventory", <<>>),
                    PySplit(zbx_path, ".", 1)[2], <<>>))
    ELSE IF StartsWith(zbx_path, k_tags_dot)
    THEN Ok(FirstTagValue(HostGet(host, "tags", <<>>), PySplit(zbx_path, ".", 1)[2]))
    ELSE IF zbx_path = k_groups
    THEN Ok(PyJoin(<<",">>, TruthyNames(HostGet(host, "groups", <<>>))))
    ELSE IF zbx_path \in {k_templates, k_parentTemplates}
    THEN Ok(PyJoin(<<",">>, TruthyNames(HostGet(host, "parentTemplates", <<>>))))
    ELSE TopLevelFallback(host, zbx_path)

(***************************************************************************)
(* build_row_for_host (src/zabbix-to-itop.py).  The row is a dict; an      *)
(* exception of extract_value_from_host propagates.                        *)
(***************************************************************************)
RECURSIVE BuildRowFrom(_, _, _)
BuildRowFrom(host, entries, row) ==
    IF entries = <<>> THEN Ok(row)
    ELSE LET zbx_path == Head(entries)[1]
             itop_field == Head(entries)[2]
         IN IF HasChar(zbx_path, ":")
            THEN BuildRowFrom(host, Tail(entries),
                     DictSet(row, PySplit(zbx_path, ":", -1)[2], itop_field))
            ELSE LET v == extract_value_from_host(host, zbx_path) IN
                 IF v.exc # "None" THEN Raise(v.exc)
                 ELSE BuildRowFrom(host, Tail(entries),
                                   DictSet(row, itop_field, v.val))

build_row_for_host(host, mp) == BuildRowFrom(host, mp, <<>>)

(***************************************************************************)
(* ZabbixHost (src/zabbixhost.py).                                         *)
(***************************************************************************)
\* for intf in self._host.get("interfaces", []): if intf.get(key): return it
RECURSIVE InterfaceScan(_, _)
InterfaceScan(ifs, key) ==
    IF ifs = <<>> THEN <<>>
    ELSE IF Head(ifs)[key] # <<>> THEN Head(ifs)[key]
    ELSE InterfaceScan(Tail(ifs), key)

\* The mutated accessor: the domain always gets a "." appended.
interface_AlwaysDot(host, key) ==
    LET dns == InterfaceScan(HostGet(host, "interfaces", <<>>), "dns")
        parts == PySplit(dns, ".", 1)
    IN IF key = "domain"
       THEN IF Len(parts) # 2 THEN <<>> ELSE parts[2] \o <<".">>
       ELSE IF key = "host"
       THEN IF Len(parts) # 2 THEN <<>> ELSE parts[1]
       ELSE InterfaceScan(HostGet(host, "interfaces", <<>>), key)

\* ZabbixHost.interface(key).  (host, rest) = dns.split(".", 1) raises
\* ValueError unless the split has two parts; the except clause returns "".
interface(host, key) ==
    LET dns == InterfaceScan(HostGet(host, "interfaces", <<>>), "dns")
        parts == PySplit(dns, ".", 1)
    IN IF key = "domain"
       THEN IF Len(parts) # 2 THEN <<>>
            ELSE LET rest == parts[2] IN
                 IF rest # <<>> /\ rest[Len(rest)] # "." THEN rest \o <<".">>
                 ELSE rest
       ELSE IF key = "host"
       THEN IF Len(parts) # 2 THEN <<>> ELSE parts[1]
       ELSE InterfaceScan(HostGet(host, "interfaces", <<>>), key)

\* The excluded_tags loops of _matches, in iteration order: "False" when a
\* tag matches, "ValueError" when (name, value) = et.split("=") cannot unpack,
\* "KeyError" when the host has no "tags", "next" when the loops run out.
RECURSIVE ExcludedTagsLoop(_, _)
ExcludedTagsLoop(host, ets) ==
    IF ets = <<>> THEN "next"
    ELSE IF "tags" \notin host.keys THEN "KeyError"
    ELSE IF host.tags = <<>> THEN ExcludedTagsLoop(host, Tail(ets))
    ELSE LET nv == PySplit(Head(ets), "=", -1) IN
         IF Len(nv) # 2 THEN "ValueError"
         ELSE IF \E n \in 1..Len(host.tags) :
                     host.tags[n].tag = nv[1] /\ host.tags[n].value = nv[2]
         THEN "False"
         ELSE ExcludedTagsLoop(host, Tail(ets))

\* The excluded_groups loops of _matches.
RECURSIVE ExcludedGroupsLoop(_, _)
ExcludedGroupsLoop(host, egs) ==
    IF egs = <<>> THEN "next"
    ELSE IF "hostgroups" \notin host.keys THEN "KeyError"
    ELSE IF \E n \in 1..Len(host.hostgroups) : host.hostgroups[n].name = Head(egs)
    THEN "False"
    ELSE ExcludedGroupsLoop(host, Tail(egs))

\* ZabbixHost._matches().  An absent cfg key and an empty list are both falsy.
matches(host, cfg) ==
    LET t == ExcludedTagsLoop(host, cfg.excluded_tags) IN
    IF t = "False" THEN [exc |-> "None", val |-> FALSE]
    ELSE IF t # "next" THEN [exc |-> t, val |-> FALSE]
    ELSE LET g == ExcludedGroupsLoop(host, cfg.excluded_groups) IN
         IF g = "False" THEN [exc |-> "None", val |-> FALSE]
         ELSE IF g # "next" THEN [exc |-> g, val |-> FALSE]
         ELSE [exc |-> "None", val |-> TRUE]

(***************************************************************************)
(* Inputs: the command lines and the host records the model runs on.       *)
(***************************************************************************)
Columns ==
    { <<"h", "o", "s", "t", ":", "n", ",", " ", "o", "=", "A">>,
      <<"n", "a", "m", "e", ":", "n", ",", "h", "o", "s", "t", ":", "n">>,
      <<"n", "a", "m", "e", ":", "n", ",", "n", "=", "B">>,
      <<"f", "q", "d", "n", ":", "f", ",", "g", "r", "o", "u", "p", "s", ":", "g">>,
      <<"t", "a", "g", "s", ".", "e", ":", "t", ",", "i", "n", "v", "e", "n", "t", "o", "r", "y", ".", "o", ":", "s", ",", "t", "e", "m", "p", "l", "a", "t", "e", "s", ":", "m", ",", "i", "p", ":", "i", ",", "s", "t", "a", "t", "u", "s", ":", "z">>,
      <<"h", "o", "s", "t">>,
      <<>> }

Uniques == { <<>>, <<"n">>, <<"n", ",", "o">> }

RequiredTags == { <<>>, <<"e", "=", "p">>, <<"e">> }

RequiredGroups == { <<>>, <<"L">> }

RequiredTemplates == { <<>>, <<"T">> }

ArgPool ==
    [ columns : Columns, unique : Uniques, required_tags : RequiredTags,
      required_groups : RequiredGroups, required_templates : RequiredTemplates,
      perhost : BOOLEAN ]

ApiKeys == {"hostid", "host", "name", "status", "tags", "hostgroups",
            "parentTemplates", "interfaces", "inventory"}

Tag(n, v) == [tag |-> n, value |-> v]
Named(n) == [name |-> n]
Intf(d, a) == [dns |-> d, ip |-> a]

HostBase ==
    [ keys |-> ApiKeys, hostid |-> <<"0">>, host |-> <<"a">>, name |-> <<"A">>,
      status |-> <<"0">>,
      tags |-> << Tag(<<"e">>, <<"p">>) >>,
      hostgroups |-> << Named(<<"L">>) >>,
      groups |-> <<>>,
      parentTemplates |-> << Named(<<"T">>) >>,
      interfaces |-> << Intf(<<"w", ".", "x">>, <<"1">>) >>,
      inventory |-> << << <<"o">>, <<"R">> >> >> ]

\* The records of the pool: one plain host; one with a repeated tag name, two
\* groups and no interface; one of another environment; one in the shape of
\* an API that also returns the "groups" key.
HostPool ==
    { HostBase,
      [HostBase EXCEPT !.host = <<"b">>,
                       !.tags = << Tag(<<"e">>, <<"p">>), Tag(<<"e">>, <<"d">>) >>,
                       !.hostgroups = << Named(<<"L">>), Named(<<"P">>) >>,
                       !.parentTemplates = <<>>,
                       !.interfaces = <<>>,
                       !.inventory = <<>>],
      [HostBase EXCEPT !.host = <<"c">>, !.name = <<"C">>,
                       !.tags = << Tag(<<"e">>, <<"d">>) >>,
                       !.hostgroups = << Named(<<"P">>) >>,
                       !.interfaces = << Intf(<<>>, <<"2">>) >>],
      [HostBase EXCEPT !.host = <<"d">>, !.name = <<"D">>,
                       !.keys = ApiKeys \cup {"groups"},
                       !.groups = << Named(<<"L">>) >>,
                       !.tags = <<>>] }

SeqsUpTo(S, n) == UNION { [1..k -> S] : k \in 0..n }

DigitChars == <<"1", "2", "3", "4", "5", "6", "7", "8", "9">>

\* The server gives every host its own hostid.
WithIds(hs) == [n \in 1..Len(hs) |-> [hs[n] EXCEPT !.hostid = <<DigitChars[n]>>]]

\* ZabbixHost inputs.
DnsPool ==
    { <<>>, <<"w">>, <<"w", ".", "x">>, <<"w", ".", "x", ".", "y">>, <<"w", ".", "x", ".">>,
      <<"w", ".">>, <<".", "x">>, <<".">> }

ZHHosts ==
    { [h EXCEPT !.interfaces = ifs] :
        h \in HostPool,
        ifs \in SeqsUpTo({ Intf(d, <<"1">>) : d \in DnsPool }, MaxIntf) }

ZHCfgs ==
    [ excluded_tags : { <<>>, << <<"e", "=", "p">> >>, << <<"e", "=", "d">>, <<"e", "=", "p">> >>,
                        << <<"e">> >>, << <<"e", "=", "p", "=", "x">> >>, << <<"e", "=", "x">> >> },
      excluded_groups : { <<>>, << <<"P">> >>, << <<"X">>, <<"L">> >> } ]

InterfaceKeys == {"host", "domain", "dns", "ip"}

(***************************************************************************)
(* main() of src/zabbix-to-itop.py as a state machine.                     *)
(***************************************************************************)
NoZH == [host |-> HostBase, cfg |-> [excluded_tags |-> <<>>, excluded_groups |-> <<>>]]
NoCall == [op |-> "none", key |-> "none"]

Init ==
    /\ args \in ArgPool
    /\ zabbix \in { WithIds(hs) : hs \in SeqsUpTo(HostPool, MaxHosts) }
    /\ pc = "parse"
    /\ exc = "None"
    /\ req_tags = <<>>
    /\ req_groups = <<>>
    /\ req_templates = <<>>
    /\ mapping = <<>>
    /\ unique = <<>>
    /\ hosts = <<>>
    /\ i = 1
    /\ rows = <<>>
    /\ uniqueset = <<>>
    /\ header = <<>>
    /\ zh = NoZH
    /\ zcall = NoCall
    /\ zret = <<>>
    /\ zexc = "None"

\* The try block of main: a ValueError of a parser prints and exits with 2.
ParseArgs ==
    /\ pc = "parse"
    /\ LET rt == parse_required_tags(args.required_tags)
           mp == parse_columns_mapping(args.columns)
       IN IF rt.exc # "None" \/ mp.exc # "None"
          THEN /\ pc' = "exit2"
               /\ exc' = "ValueError"
               /\ UNCHANGED <<req_tags, req_groups, req_templates, mapping, unique>>
          ELSE /\ pc' = "connect"
               /\ req_tags' = rt.val
               /\ req_groups' = parse_csv_list(args.required_groups)
               /\ req_templates' = parse_csv_list(args.required_templates)
               /\ mapping' = mp.val
               /\ unique' = IF args.unique # <<>>
                            THEN PySplit(args.unique, ",", -1)
                            ELSE <<>>
               /\ exc' = exc
    /\ UNCHANGED <<args, zabbix, hosts, i, rows, uniqueset, header>>
    /\ UNCHANGED zhVars

\* zapi.host.get: with --perhost only the hostids, else the full records.
FetchHosts ==
    /\ pc = "connect"
    /\ hosts' = IF args.perhost
                THEN [n \in 1..Len(zabbix) |->
                         [keys |-> {"hostid"}, hostid |-> zabbix[n].hostid]]
                ELSE zabbix
    /\ i' = 1
    /\ pc' = "loop"
    /\ UNCHANGED <<args, zabbix, exc, req_tags, req_groups, req_templates,
                   mapping, unique, rows, uniqueset, header>>
    /\ UNCHANGED zhVars

\* The record the loop body works on: with --perhost it is fetched by hostid.
HostAt(n) ==
    IF args.perhost
    THEN CHOOSE z \in Elems(zabbix) : z.hostid = hosts[n].hostid
    ELSE hosts[n]

\* rowid = [row[u] for u in unique]
RowId(row) == [n \in 1..Len(unique) |-> DictGet(row, unique[n], PyNone)]

\* The mutated loop body: the row is appended whether or not the filter passed.
ProcessHost_NoFilter ==
    /\ pc = "loop"
    /\ i <= Len(hosts)
    /\ LET br == build_row_for_host(HostAt(i), mapping) IN
       IF br.exc # "None"
       THEN /\ pc' = "raised" /\ exc' = br.exc
            /\ UNCHANGED <<i, rows>>
       ELSE /\ rows' = Append(rows, br.val)
            /\ i' = i + 1
            /\ UNCHANGED <<pc, exc>>
    /\ UNCHANGED <<args, zabbix, req_tags, req_groups, req_templates, mapping,
                   unique, hosts, uniqueset, header>>
    /\ UNCHANGED zhVars

\* One iteration of "for h in hosts".
ProcessHost ==
    /\ pc = "loop"
    /\ i <= Len(hosts)
    /\ LET h == HostAt(i) IN
       IF ~host_matches_filters(h, req_tags, req_groups, req_templates)
       THEN /\ i' = i + 1
            /\ UNCHANGED <<pc, exc, rows, uniqueset>>
       ELSE LET br == build_row_for_host(h, mapping) IN
            IF br.exc # "None"
            THEN /\ pc' = "raised" /\ exc' = br.exc
                 /\ UNCHANGED <<i, rows, uniqueset>>
            ELSE IF unique # <<>> /\ \E n \in 1..Len(unique) : ~DictHas(br.val, unique[n])
            THEN /\ pc' = "raised" /\ exc' = "KeyError"
                 /\ UNCHANGED <<i, rows, uniqueset>>
            ELSE /\ uniqueset' = IF unique # <<>> /\ RowId(br.val) \notin Elems(uniqueset)
                                 THEN Append(uniqueset, RowId(br.val))
                                 ELSE uniqueset
                 /\ rows' = Append(rows, br.val)
                 /\ i' = i + 1
                 /\ UNCHANGED <<pc, exc>>
    /\ UNCHANGED <<args, zabbix, req_tags, req_groups, req_templates, mapping,
                   unique, hosts, header>>
    /\ UNCHANGED zhVars

\* After the loop: print_table_preview / write_csv take the header from rows[0].
Output ==
    /\ pc = "loop"
    /\ i > Len(hosts)
    /\ header' = IF rows = <<>> THEN <<>> ELSE DictKeys(rows[1])
    /\ pc' = "done"
    /\ UNCHANGED <<args, zabbix, exc, req_tags, req_groups, req_templates,
                   mapping, unique, hosts, i, rows, uniqueset>>
    /\ UNCHANGED zhVars

Next == ParseArgs \/ FetchHosts \/ ProcessHost \/ Output

Spec == Init /\ [][Next]_vars

(***************************************************************************)
(* The ZabbixHost accessor: an object is built from a host and a cfg, and  *)
(* its methods are called.                                                 *)
(***************************************************************************)
InitZH ==
    /\ zh \in [host : ZHHosts, cfg : ZHCfgs]
    /\ zcall = NoCall
    /\ zret = <<>>
    /\ zexc = "None"
    /\ args = [columns |-> <<>>, unique |-> <<>>, required_tags |-> <<>>,
               required_groups |-> <<>>, required_templates |-> <<>>,
               perhost |-> FALSE]
    /\ zabbix = <<>>
    /\ pc = "zh"
    /\ exc = "None"
    /\ req_tags = <<>>
    /\ req_groups = <<>>
    /\ req_templates = <<>>
    /\ mapping = <<>>
    /\ unique = <<>>
    /\ hosts = <<>>
    /\ i = 1
    /\ rows = <<>>
    /\ uniqueset = <<>>
    /\ header = <<>>

CallInterface(key) ==
    /\ pc = "zh"
    /\ zcall' = [op |-> "interface", key |-> key]
    /\ zret' = interface(zh.host, key)
    /\ zexc' = "None"
    /\ UNCHANGED zh
    /\ UNCHANGED mainVars

CallMatches ==
    /\ pc = "zh"
    /\ LET m == matches(zh.host, zh.cfg) IN
       /\ zcall' = [op |-> "_matches", key |-> "none"]
       /\ zret' = IF m.exc = "None" THEN m.val ELSE <<>>
       /\ zexc' = m.exc
    /\ UNCHANGED zh
    /\ UNCHANGED mainVars

NextZH == (\E key \in InterfaceKeys : CallInterface(key)) \/ CallMatches

SpecZH == InitZH /\ [][NextZH]_vars

(***************************************************************************)
(* Properties.                                                             *)
(***************************************************************************)
Started == pc \in {"loop", "done", "raised"}

\* The filter verdict of the n-th host of the loop.
Passes(n) == host_matches_filters(HostAt(n), req_tags, req_groups, req_templates)

\* The destination field a mapping entry declares.
Dest(entry) ==
    IF HasChar(entry[1], ":") THEN PySplit(entry[1], ":", -1)[2] ELSE entry[2]

DeclaredFields(mp) == [n \in 1..Len(mp) |-> Dest(mp[n])]

\* The rows of the filter-passing hosts among the first n, in arrival order.
RECURSIVE RowsOfPassing(_)
RowsOfPassing(n) ==
    IF n = 0 THEN <<>>
    ELSE IF Passes(n)
    THEN Append(RowsOfPassing(n-1), build_row_for_host(HostAt(n), mapping).val)
    ELSE RowsOfPassing(n-1)

\* The loop indexes of the filter-passing hosts among the first n, in order.
RECURSIVE PassingIdx(_)
PassingIdx(n) ==
    IF n = 0 THEN <<>>
    ELSE IF Passes(n) THEN Append(PassingIdx(n-1), n) ELSE PassingIdx(n-1)

\* sub occurs in s
Contains(s, sub) ==
    \E k \in 0..(Len(s) - Len(sub)) : SubSeq(s, k+1, k+Len(sub)) = sub

\* The column specification names one destination field twice.
ColumnsCollide ==
    LET mp == parse_columns_mapping(args.columns) IN
    /\ mp.exc = "None"
    /\ \E a, b \in 1..Len(mp.val) : a # b /\ Dest(mp.val[a]) = Dest(mp.val[b])

\* C1: with a uniqueness key configured, the output rows hold at most one row
\* per tuple of values at the key fields; with the key unset, every row of a
\* filter-passing host is kept.  Stated for column specifications whose
\* destination fields are distinct, where the dedup alone decides.
C1_DedupOneRowPerKey ==
    (Started /\ ~ColumnsCollide) =>
      /\ unique # <<>> =>
            \A a, b \in 1..Len(rows) : a # b => RowId(rows[a]) # RowId(rows[b])
      /\ unique = <<>> => rows = RowsOfPassing(i-1)

\* C2: a column specification in which two entries name the same destination
\* field is rejected while parsing the arguments: the run never gets past the
\* argument stage, no host is fetched and no row is built.
C2_DuplicateDestinationRejected ==
    ColumnsCollide => (pc \in {"parse", "exit2"} /\ hosts = <<>> /\ rows = <<>>)

\* C3: every row has exactly one entry per mapping entry, its keys are the
\* declared destination fields in declaration order, and the header taken
\* from the first row is the key sequence of every row.
C3_SchemaStable ==
    /\ \A r \in 1..Len(rows) : DictKeys(rows[r]) = DeclaredFields(mapping)
    /\ pc = "done" => \A r \in 1..Len(rows) : DictKeys(rows[r]) = header

\* C4: host_matches_filters returns True exactly when every required tag
\* name=value is carried by some tag entry of the host, every required group
\* is among the host's groups and every required template among its templates.
ClaimedMatch(host) ==
    /\ \A n \in 1..Len(req_tags) :
          \E t \in 1..Len(host.tags) :
              host.tags[t].tag = req_tags[n][1] /\ host.tags[t].value = req_tags[n][2]
    /\ \A n \in 1..Len(req_groups) :
          \E g \in 1..Len(host.hostgroups) : host.hostgroups[g].name = req_groups[n]
    /\ \A n \in 1..Len(req_templates) :
          \E t \in 1..Len(host.parentTemplates) :
              host.parentTemplates[t].name = req_templates[n]

C4_FilterIffAllRequired ==
    Started => \A n \in 1..Len(hosts) : n < i => (Passes(n) <=> ClaimedMatch(HostAt(n)))

\* C5: extract_value_from_host never raises: the run never ends on the
\* IndexError of its fqdn / ip branches, a host without interfaces gets "".
C5_ExtractNeverRaises == exc # "IndexError"

\* C6: for every row of a host that passed a non-empty required-groups
\* filter, a column mapped from `groups` holds the comma-joined names of the
\* groups the filter evaluated, so it contains every required group name.
C6_GroupsColumnHoldsFilterGroups ==
    (Started /\ req_groups # <<>> /\ Len(rows) = Len(PassingIdx(i-1))) =>
      \A r \in 1..Len(rows) : \A m \in 1..Len(mapping) :
         (mapping[m][1] = k_groups /\ \A o \in 1..Len(mapping) : o # m => Dest(mapping[o]) # mapping[m][2])
         => LET v == DictGet(rows[r], mapping[m][2], PyNone)
                h == HostAt(PassingIdx(i-1)[r])
            IN /\ v = PyJoin(<<",">>, Names(h.hostgroups))
               /\ \A g \in 1..Len(req_groups) : Contains(v, req_groups[g])

\* C7: with d the first non-empty dns of the host's interfaces ("" if none),
\* interface("host") is d up to its first dot and interface("domain") is the
\* rest after it, with "." appended exactly when the rest is non-empty and
\* does not end in "."; without a dot in d both are "".
FirstDns(host) ==
    LET ifs == host.interfaces IN
    IF \E n \in 1..Len(ifs) : ifs[n].dns # <<>>
    THEN ifs[CHOOSE n \in 1..Len(ifs) :
                ifs[n].dns # <<>> /\ \A j \in 1..(n-1) : ifs[j].dns = <<>>].dns
    ELSE <<>>

FirstDot(d) == CHOOSE k \in 1..Len(d) : d[k] = "." /\ \A j \in 1..(k-1) : d[j] # "."

C7_DnsSplit ==
    (zcall.op = "interface" /\ zcall.key \in {"host", "domain"}) =>
      LET d == FirstDns(zh.host) IN
      IF \E k \in 1..Len(d) : d[k] = "."
      THEN LET before == SubSeq(d, 1, FirstDot(d) - 1)
               rest == SubSeq(d, FirstDot(d) + 1, Len(d))
           IN IF zcall.key = "host" THEN zret = before
              ELSE IF rest # <<>> /\ rest[Len(rest)] # "."
              THEN zret = rest \o <<".">>
              ELSE zret = rest
      ELSE zret = <<>>

\* Reached: interface("domain") on a dns whose rest has no trailing dot.
C7_Witness ==
    /\ zcall = [op |-> "interface", key |-> "domain"]
    /\ FirstDns(zh.host) = <<"w", ".", "x", ".", "y">>
    /\ zret = <<"x", ".", "y", ".">>
    /\ Len(zh.host.interfaces) = 2
    /\ zh.host.interfaces[1].dns = <<>>

\* C8: _matches returns False when the host carries a tag whose name=value is
\* listed in excluded_tags or belongs to a group listed in excluded_groups,
\* True otherwise, and never fails.
ClaimedExcluded(host, cfg) ==
    \/ \E e \in 1..Len(cfg.excluded_tags) : \E t \in 1..Len(host.tags) :
          host.tags[t].tag \o <<"=">> \o host.tags[t].value = cfg.excluded_tags[e]
    \/ \E e \in 1..Len(cfg.excluded_groups) : \E g \in 1..Len(host.hostgroups) :
          host.hostgroups[g].name = cfg.excluded_groups[e]

C8_MatchesExcludesAndNeverFails ==
    zcall.op = "_matches" =>
      /\ zexc = "None"
      /\ zret = ~ClaimedExcluded(zh.host, zh.cfg)

\* C9: a uniqueness key naming a field the row does not have does not fail
\* the run loop: the run never ends on the KeyError of row[u].
C9_AbsentKeyFieldTolerated == exc # "KeyError"

\* C10: the output rows are, in order, the rows built from the hosts processed
\* so far that passed host_matches_filters; before the loop there are none;
\* a step only appends to the rows and only advances through the hosts.
C10_RowsInv ==
    /\ Started => rows = RowsOfPassing(i-1)
    /\ ~Started => rows = <<>>

C10_RowsStep ==
    /\ Len(rows') >= Len(rows)
    /\ SubSeq(rows', 1, Len(rows)) = rows
    /\ Len(rows') <= Len(rows) + 1
    /\ i' >= i

C10_RunLoopOrder == []C10_RowsInv /\ [][C10_RowsStep]_vars

\* Reached: three hosts processed, the second rejected, two rows kept.
C10_Witness ==
    /\ pc = "loop" /\ i = 4
    /\ Passes(1) /\ ~Passes(2) /\ Passes(3)
    /\ Len(rows) = 2
    /\ rows[1] # rows[2]

====
